---- MODULE Spec2Model ----
(***************************************************************************)
(* Model of three dashboard components of the nhost dashboard:             *)
(*   - CustomDomains            (pages/.../settings/custom-domains)        *)
(*   - HasuraConnectionInfo and AzureADProviderSettings                    *)
(*   - OverviewMetrics                                                     *)
(* Each component is a render function of context, query and form state.   *)
(* Every action that changes what a component reads re-renders it, so the  *)
(* view variables always hold the output of the latest render.             *)
(***************************************************************************)
EXTENDS Integers, Sequences, FiniteSets, TLC

VARIABLES
    \* context: useCurrentWorkspaceAndProject, useIsPlatform, env, props
    currentProject, isPlatform, envDev, closeProp,
    \* HasuraConnectionInfo / CustomDomains
    clipboard, hasuraView, domainsView,
    \* OverviewMetrics
    clock, elapsed, now, metricsData, metricsLoading, metricsError,
    metricsView, renderedAt,
    \* AzureADProviderSettings
    maintenanceActive, ssoData, ssoLoading, ssoError,
    formValues, formDefaults, isDirty, isSubmitting, formErrors,
    pc, submitted,
    invocations, mutationsIssued, resolved, rejected,
    loadingToasts, successToasts, errorToasts, uncaught,
    azureView

projectVars == <<currentProject, isPlatform, envDev, closeProp,
                 clipboard, hasuraView, domainsView>>
metricsVars == <<clock, elapsed, now, metricsData, metricsLoading,
                 metricsError, metricsView, renderedAt>>
azureQueryVars == <<maintenanceActive, ssoData, ssoLoading, ssoError>>
azureFormVars == <<formValues, formDefaults, isDirty, isSubmitting,
                   formErrors, pc, submitted>>
azureCountVars == <<invocations, mutationsIssued, resolved, rejected,
                    loadingToasts, successToasts, errorToasts, uncaught>>
azureVars == <<azureQueryVars, azureFormVars, azureCountVars, azureView>>
vars == <<projectVars, metricsVars, azureVars>>

----------------------------------------------------------------------------
(* Bounds of the model *)

\* longest Hasura admin secret enumerated
MaxSecretLen == 2
\* days the wall clock may advance in one behaviour
MaxElapsed == 3
\* invocations of handleProviderUpdate in one behaviour
MaxSubmits == 2

----------------------------------------------------------------------------
(* JavaScript values *)

\* undefined / null of a string-typed property
Undefined == "<undefined>"

\* the mask character of the admin secret (U+2022 in the source)
Bullet == "*"

\* characters a secret is made of; the mask character itself is one of them
SecretAlphabet == {"k", Bullet}

RECURSIVE StringsUpTo(_)
StringsUpTo(n) ==
    IF n = 0 THEN {""}
    ELSE LET shorter == StringsUpTo(n - 1)
         IN  shorter \cup {s \o c : s \in shorter, c \in SecretAlphabet}

\* !s of a string-or-undefined value
Falsy(s) == s = Undefined \/ s = ""

----------------------------------------------------------------------------
(* Context: the current project *)

NoProject == [exists |-> FALSE]

Projects ==
    [exists : {TRUE},
     id : {"app-1"},
     isFree : BOOLEAN,
     subdomain : {Undefined, "", "myapp"},
     region : {"eu-central-1"},
     adminSecret : {Undefined} \cup StringsUpTo(MaxSecretLen)]

ProjectContexts == {NoProject} \cup Projects

\* currentProject?.id
ProjectId(p) == IF p.exists THEN p.id ELSE Undefined

----------------------------------------------------------------------------
(* CustomDomains *)

DomainPanels ==
    {"AuthDomain", "HasuraDomain", "DatabaseDomain", "RunServiceDomains"}

CustomDomainsNoBanner(p) ==
    IF ~p.exists THEN [kind |-> "TypeError", elements |-> {}]
    ELSE [kind |-> "page", elements |-> {"CustomDomainsIntro"} \cup DomainPanels]

CustomDomains(p) ==
    IF ~p.exists
    THEN \* currentProject.plan of undefined
         [kind |-> "TypeError", elements |-> {}]
    ELSE IF p.isFree
         THEN [kind |-> "page", elements |-> {"UpgradeToProBanner"}]
         ELSE [kind |-> "page",
               elements |-> {"CustomDomainsIntro"} \cup DomainPanels]

----------------------------------------------------------------------------
(* HasuraConnectionInfo *)

\* Array(n).fill(Bullet).join('')
RECURSIVE Mask(_)
Mask(n) == IF n = 0 THEN "" ELSE Bullet \o Mask(n - 1)

\* the href of the Open Hasura button, kept as the call that produces it
HasuraUrl(p, platform, dev) ==
    IF dev \/ ~platform
    THEN [fn |-> "getHasuraConsoleServiceUrl", subdomain |-> "", region |-> "",
          slug |-> ""]
    ELSE [fn |-> "generateAppServiceUrl", subdomain |-> p.subdomain,
          region |-> p.region, slug |-> "/console"]

NoUrl == [fn |-> "none", subdomain |-> "", region |-> "", slug |-> ""]

LoadingScreen ==
    [elements |-> {"LoadingScreen"}, secretText |-> "", href |-> NoUrl]

\* projectAdminSecret = currentProject?.config?.hasura.adminSecret
ProjectAdminSecret(p) == IF p.exists THEN p.adminSecret ELSE Undefined

HasuraConnectionInfoPlain(p, platform, dev, close) ==
    IF ~p.exists \/ Falsy(p.subdomain) \/ Falsy(ProjectAdminSecret(p))
    THEN LoadingScreen
    ELSE [elements |-> {"AdminSecretText", "CopyButton", "OpenHasuraLink"}
                          \cup (IF close THEN {"CancelButton"} ELSE {}),
          secretText |-> ProjectAdminSecret(p),
          href |-> HasuraUrl(p, platform, dev)]

HasuraConnectionInfo(p, platform, dev, close) ==
    IF ~p.exists \/ Falsy(p.subdomain) \/ Falsy(ProjectAdminSecret(p))
    THEN LoadingScreen
    ELSE [elements |-> {"AdminSecretText", "CopyButton", "OpenHasuraLink"}
                          \cup (IF close THEN {"CancelButton"} ELSE {}),
          secretText |-> Mask(Len(ProjectAdminSecret(p))),
          href |-> HasuraUrl(p, platform, dev)]

NoClip == [written |-> FALSE, text |-> "", label |-> ""]

\* copy(projectAdminSecret, 'Hasura admin secret')
CopySecret(p) ==
    [written |-> TRUE, text |-> ProjectAdminSecret(p),
     label |-> "Hasura admin secret"]

----------------------------------------------------------------------------
(* OverviewMetrics *)

\* Dates as new Date(year, monthIndex, date); monthIndex is 0..11
IsLeap(y) == (y % 4 = 0 /\ y % 100 # 0) \/ y % 400 = 0

DaysIn(y, m) ==
    IF m = 1 THEN (IF IsLeap(y) THEN 29 ELSE 28)
    ELSE IF m \in {3, 5, 8, 10} THEN 30 ELSE 31

NextDay(d) ==
    IF d.date < DaysIn(d.year, d.month)
    THEN [d EXCEPT !.date = d.date + 1]
    ELSE IF d.month < 11
         THEN [year |-> d.year, month |-> d.month + 1, date |-> 1]
         ELSE [year |-> d.year + 1, month |-> 0, date |-> 1]

\* the days on which the module may be loaded
StartDates ==
    {[year |-> 2023, month |-> 11, date |-> 30],
     [year |-> 2024, month |-> 1, date |-> 28]}

\* `now` is the module-level constant; the day of the render is not read
FirstOfMonth(loaded, today) ==
    [year |-> loaded.year, month |-> loaded.month, date |-> 1]

MetricFields ==
    <<"cpuSecondsUsage", "totalRequests", "functionInvocations",
      "postgresVolumeUsage", "postgresVolumeCapacity", "logsVolume">>

MetricLabels ==
    <<"CPU Usage Seconds", "Total Requests", "Function Invocations",
      "Postgres Usage", "Postgres Capacity", "Logs">>

MetricNames == {MetricFields[i] : i \in DOMAIN MetricFields}

\* a metric of the query result, in halves of a unit; isNull: the field or
\* its value is missing
MetricValues ==
    {[isNull |-> TRUE, halves |-> 0],
     [isNull |-> FALSE, halves |-> 0],
     [isNull |-> FALSE, halves |-> 3]}

NoMetrics ==
    [present |-> FALSE,
     values |-> [f \in MetricNames |-> [isNull |-> TRUE, halves |-> 0]]]

\* the results enumerated: the three counters report one value, the three
\* volumes another
MetricsResults ==
    {NoMetrics} \cup
    {[present |-> TRUE,
      values |-> [f \in MetricNames |->
                     IF f \in {MetricFields[i] : i \in 1..3} THEN c ELSE v]] :
        c \in MetricValues, v \in MetricValues}

\* data?.field?.value || 0
ValueOrZero(data, f) ==
    IF ~data.present \/ data.values[f].isNull THEN 0 ELSE data.values[f].halves

\* Math.round(x).toString() of x = h / 2
RoundToString(h) == [fmt |-> "integer", n |-> (h + 1) \div 2]

\* prettysize(x) of x = h / 2
PrettySize(h) == [fmt |-> "prettysize", n |-> h]

NoValue == [fmt |-> "undefined", n |-> 0]

CardElements(data) ==
    [i \in 1..6 |->
        [label |-> MetricLabels[i],
         value |-> IF i <= 3 THEN RoundToString(ValueOrZero(data, MetricFields[i]))
                   ELSE PrettySize(ValueOrZero(data, MetricFields[i]))]]

\* <MetricsCard label value className />: a text is rendered per truthy prop
MetricsCard(label, value, className) ==
    [showsLabel |-> ~Falsy(label), label |-> label,
     showsValue |-> value.fmt # "undefined", value |-> value,
     className |-> className]

MetricsQuery(project, loaded, today) ==
    [appId |-> ProjectId(project), from |-> FirstOfMonth(loaded, today)]

OverviewMetricsFilledWhileLoading(data, loading, error, project, loaded, today) ==
    LET cards == CardElements(data)
        query == MetricsQuery(project, loaded, today)
    IN  IF ~data.present /\ error /\ ~loading
        THEN [kind |-> "throw", cards |-> <<>>, query |-> query]
        ELSE [kind |-> "metrics",
              cards |-> [i \in 1..6 |->
                            MetricsCard(cards[i].label, cards[i].value, "")],
              query |-> query]

OverviewMetrics(data, loading, error, project, loaded, today) ==
    LET cards == CardElements(data)
        query == MetricsQuery(project, loaded, today)
    IN  IF ~data.present /\ loading
        THEN [kind |-> "placeholders",
              cards |-> [i \in 1..6 |->
                            MetricsCard(Undefined, NoValue, "animate-pulse")],
              query |-> query]
        ELSE IF ~data.present /\ error
        THEN [kind |-> "throw", cards |-> <<>>, query |-> query]
        ELSE [kind |-> "metrics",
              cards |-> [i \in 1..6 |->
                            MetricsCard(cards[i].label, cards[i].value, "")],
              query |-> query]

----------------------------------------------------------------------------
(* AzureADProviderSettings *)

TextFields == {"clientId", "clientSecret", "tenant"}

FieldTexts == {"", "azure-value"}

AzureADProviderFormValues ==
    [clientId : FieldTexts, clientSecret : FieldTexts, tenant : FieldTexts,
     enabled : BOOLEAN]

\* data?.config?.auth?.method?.oauth?.azuread of the sign-in methods query;
\* enabled is "true", "false" or Undefined
NoSso ==
    [present |-> FALSE, clientId |-> Undefined, clientSecret |-> Undefined,
     tenant |-> Undefined, enabled |-> Undefined]

SsoResults ==
    {NoSso,
     [present |-> TRUE, clientId |-> Undefined, clientSecret |-> Undefined,
      tenant |-> Undefined, enabled |-> "false"],
     [present |-> TRUE, clientId |-> "azure-value", clientSecret |-> "",
      tenant |-> "azure-value", enabled |-> "false"],
     [present |-> TRUE, clientId |-> "azure-value",
      clientSecret |-> "azure-value", tenant |-> "azure-value",
      enabled |-> "true"]}

\* s || ''
OrEmpty(s) == IF Falsy(s) THEN "" ELSE s

\* b || false
OrFalse(b) == b = "true"

\* defaultValues of useForm
DefaultValues(data) ==
    [clientId |-> OrEmpty(data.clientId),
     clientSecret |-> OrEmpty(data.clientSecret),
     tenant |-> OrEmpty(data.tenant),
     enabled |-> OrFalse(data.enabled)]

ValidationErrorsNoTenant(values) ==
    IF values.enabled
    THEN {f \in TextFields \ {"tenant"} : values[f] = ""}
    ELSE {}

\* validationSchema: each text field is required when enabled is true
ValidationErrors(values) ==
    IF values.enabled THEN {f \in TextFields : values[f] = ""} ELSE {}

SubmitDisabledIgnoresDirty(dirty, maintenance) == maintenance

SubmitDisabledIgnoresMaintenance(dirty, maintenance) == ~dirty

\* slotProps.submitButton.disabled
SubmitDisabled(dirty, maintenance) == ~dirty \/ maintenance

NoForm(kind) ==
    [kind |-> kind, submitDisabled |-> TRUE, submitLoading |-> FALSE,
     fieldsHidden |-> TRUE, tenantError |-> FALSE]

AzureADProviderSettingsFormOnError(loading, error, project, dirty, maintenance, submitting, values, errors) ==
    IF loading THEN NoForm("ActivityIndicator")
    ELSE IF ~project.exists THEN NoForm("TypeError")
    ELSE [kind |-> "form",
          submitDisabled |-> SubmitDisabled(dirty, maintenance),
          submitLoading |-> submitting,
          fieldsHidden |-> ~values.enabled,
          tenantError |-> "tenant" \in errors]

AzureADProviderSettings(loading, error, project, dirty, maintenance, submitting, values, errors) ==
    IF loading THEN NoForm("ActivityIndicator")
    ELSE IF error THEN NoForm("throw")
    ELSE IF ~project.exists
    THEN \* currentProject.subdomain of undefined
         NoForm("TypeError")
    ELSE [kind |-> "form",
          submitDisabled |-> SubmitDisabled(dirty, maintenance),
          submitLoading |-> submitting,
          fieldsHidden |-> ~values.enabled,
          tenantError |-> "tenant" \in errors]

\* the value of `submitted` while no mutation is awaited
NoSubmission == DefaultValues(NoSso)

----------------------------------------------------------------------------
(* Renders *)

RenderProject ==
    /\ hasuraView' = HasuraConnectionInfo(currentProject', isPlatform', envDev',
                                          closeProp')
    /\ domainsView' = CustomDomains(currentProject')

RenderMetrics ==
    /\ metricsView' = OverviewMetrics(metricsData', metricsLoading',
                                      metricsError', currentProject', now',
                                      clock')
    /\ renderedAt' = clock'

RenderAzure ==
    azureView' = AzureADProviderSettings(ssoLoading', ssoError',
                     currentProject', isDirty', maintenanceActive',
                     isSubmitting', formValues', formErrors')

----------------------------------------------------------------------------
(* Initial states *)

SampleProject ==
    [exists |-> TRUE, id |-> "app-1", isFree |-> FALSE, subdomain |-> "myapp",
     region |-> "eu-central-1", adminSecret |-> "k"]

SampleDate == [year |-> 2024, month |-> 5, date |-> 14]

InitProject(projects, flags) ==
    /\ currentProject \in projects
    /\ isPlatform \in flags
    /\ envDev \in flags
    /\ closeProp \in flags
    /\ clipboard = NoClip
    /\ hasuraView = HasuraConnectionInfo(currentProject, isPlatform, envDev,
                                         closeProp)
    /\ domainsView = CustomDomains(currentProject)

\* the module is loaded (`now` is set) and the first render finds the query
\* loading
InitMetrics(dates) ==
    /\ clock \in dates
    /\ elapsed = 0
    /\ now = clock
    /\ metricsData = NoMetrics
    /\ metricsLoading = TRUE
    /\ metricsError = FALSE
    /\ metricsView = OverviewMetrics(metricsData, metricsLoading, metricsError,
                                     currentProject, now, clock)
    /\ renderedAt = clock

\* the form is created from the cached query data
InitAzure(results) ==
    /\ maintenanceActive = FALSE
    /\ ssoData \in results
    /\ ssoLoading = FALSE
    /\ ssoError = FALSE
    /\ formDefaults = DefaultValues(ssoData)
    /\ formValues = formDefaults
    /\ isDirty = FALSE
    /\ isSubmitting = FALSE
    /\ formErrors = {}
    /\ pc = "idle"
    /\ submitted = NoSubmission
    /\ invocations = 0
    /\ mutationsIssued = 0
    /\ resolved = 0
    /\ rejected = 0
    /\ loadingToasts = 0
    /\ successToasts = 0
    /\ errorToasts = 0
    /\ uncaught = 0
    /\ azureView = AzureADProviderSettings(ssoLoading, ssoError, currentProject,
                       isDirty, maintenanceActive, isSubmitting, formValues,
                       formErrors)

Init ==
    /\ InitProject(ProjectContexts, BOOLEAN)
    /\ InitMetrics(StartDates)
    /\ InitAzure(SsoResults)

----------------------------------------------------------------------------
(* Context and HasuraConnectionInfo actions *)

\* the context provides another current project (navigation, refetch)
SelectProject ==
    \E p \in ProjectContexts :
        /\ p # currentProject
        /\ currentProject' = p
        /\ UNCHANGED <<isPlatform, envDev, closeProp, clipboard>>
        /\ UNCHANGED <<clock, elapsed, now, metricsData, metricsLoading,
                       metricsError>>
        /\ UNCHANGED <<azureQueryVars, azureFormVars, azureCountVars>>
        /\ RenderProject /\ RenderMetrics /\ RenderAzure

\* onClick of the copy button
CopyAdminSecret ==
    /\ "CopyButton" \in hasuraView.elements
    /\ clipboard' = CopySecret(currentProject)
    /\ UNCHANGED <<currentProject, isPlatform, envDev, closeProp, hasuraView,
                   domainsView>>
    /\ UNCHANGED <<metricsVars, azureVars>>

NextProject == SelectProject \/ CopyAdminSecret

----------------------------------------------------------------------------
(* OverviewMetrics actions *)

\* the project-metrics query reports another result
MetricsQueryUpdate ==
    \E d \in MetricsResults, l \in BOOLEAN, e \in BOOLEAN :
        /\ <<d, l, e>> # <<metricsData, metricsLoading, metricsError>>
        /\ metricsData' = d
        /\ metricsLoading' = l
        /\ metricsError' = e
        /\ UNCHANGED <<clock, elapsed, now>>
        /\ UNCHANGED <<currentProject, isPlatform, envDev, closeProp, clipboard,
                       hasuraView, domainsView>>
        /\ UNCHANGED azureVars
        /\ RenderMetrics

\* a day passes; nothing is rendered
Tick ==
    /\ elapsed < MaxElapsed
    /\ clock' = NextDay(clock)
    /\ elapsed' = elapsed + 1
    /\ UNCHANGED <<now, metricsData, metricsLoading, metricsError, metricsView,
                   renderedAt>>
    /\ UNCHANGED <<projectVars, azureVars>>

\* the page is loaded again: the module is evaluated and the query restarts
PageLoad ==
    /\ now # clock
    /\ now' = clock
    /\ metricsData' = NoMetrics
    /\ metricsLoading' = TRUE
    /\ metricsError' = FALSE
    /\ UNCHANGED <<clock, elapsed>>
    /\ UNCHANGED <<currentProject, isPlatform, envDev, closeProp, clipboard,
                   hasuraView, domainsView>>
    /\ UNCHANGED azureVars
    /\ RenderMetrics

NextMetrics == MetricsQueryUpdate \/ Tick \/ PageLoad

----------------------------------------------------------------------------
(* AzureADProviderSettings actions *)

\* useUI reports that maintenance mode was switched
SetMaintenance ==
    /\ maintenanceActive' = ~maintenanceActive
    /\ UNCHANGED <<ssoData, ssoLoading, ssoError>>
    /\ UNCHANGED <<azureFormVars, azureCountVars>>
    /\ UNCHANGED <<projectVars, metricsVars>>
    /\ RenderAzure

\* the sign-in methods query reports another result (refetchQueries)
SsoQueryUpdate ==
    \E d \in SsoResults, l \in BOOLEAN, e \in BOOLEAN :
        /\ <<d, l, e>> # <<ssoData, ssoLoading, ssoError>>
        /\ ssoData' = d
        /\ ssoLoading' = l
        /\ ssoError' = e
        /\ UNCHANGED maintenanceActive
        /\ UNCHANGED <<azureFormVars, azureCountVars>>
        /\ UNCHANGED <<projectVars, metricsVars>>
        /\ RenderAzure

\* react-hook-form: a field changes; isDirty compares values with defaults
SetValue(f, v) ==
    /\ formValues' = [formValues EXCEPT ![f] = v]
    /\ isDirty' = (formValues' # formDefaults)
    /\ UNCHANGED <<formDefaults, isSubmitting, formErrors, pc, submitted>>
    /\ UNCHANGED <<azureQueryVars, azureCountVars>>
    /\ UNCHANGED <<projectVars, metricsVars>>
    /\ RenderAzure

\* typing into clientId, clientSecret or tenant; the inputs are hidden while
\* the provider is switched off
ChangeField ==
    \E f \in TextFields, v \in FieldTexts :
        /\ azureView.kind = "form"
        /\ ~azureView.fieldsHidden
        /\ v # formValues[f]
        /\ SetValue(f, v)

\* the switch of the settings container
ToggleEnabled ==
    /\ azureView.kind = "form"
    /\ SetValue("enabled", ~formValues.enabled)

\* handleProviderUpdate up to its await: the mutation is issued and
\* toast.promise shows the loading toast
HandleProviderUpdate(values) ==
    /\ invocations' = invocations + 1
    /\ mutationsIssued' = mutationsIssued + 1
    /\ loadingToasts' = loadingToasts + 1
    /\ submitted' = values
    /\ pc' = "awaiting"
    /\ UNCHANGED <<resolved, rejected, successToasts, errorToasts, uncaught>>

\* the submit button is clicked: the resolver validates, and only valid
\* values reach handleProviderUpdate
Submit ==
    /\ azureView.kind = "form"
    /\ ~azureView.submitDisabled
    /\ ~azureView.submitLoading
    /\ invocations < MaxSubmits
    /\ formErrors' = ValidationErrors(formValues)
    /\ IF formErrors' = {}
       THEN /\ isSubmitting' = TRUE
            /\ HandleProviderUpdate(formValues)
       ELSE /\ UNCHANGED <<isSubmitting, pc, submitted>>
            /\ UNCHANGED azureCountVars
    /\ UNCHANGED <<formValues, formDefaults, isDirty>>
    /\ UNCHANGED azureQueryVars
    /\ UNCHANGED <<projectVars, metricsVars>>
    /\ RenderAzure

UpdateConfigResolvesNoReset ==
    /\ pc = "awaiting"
    /\ resolved' = resolved + 1
    /\ successToasts' = successToasts + 1
    /\ isSubmitting' = FALSE
    /\ pc' = "idle"
    /\ submitted' = NoSubmission
    /\ UNCHANGED <<formValues, formDefaults, isDirty, formErrors>>
    /\ UNCHANGED <<invocations, mutationsIssued, rejected, loadingToasts,
                   errorToasts, uncaught>>
    /\ UNCHANGED azureQueryVars
    /\ UNCHANGED <<projectVars, metricsVars>>
    /\ RenderAzure

\* the mutation resolves: success toast, then form.reset(values)
UpdateConfigResolves ==
    /\ pc = "awaiting"
    /\ resolved' = resolved + 1
    /\ successToasts' = successToasts + 1
    /\ formValues' = submitted
    /\ formDefaults' = submitted
    /\ isDirty' = FALSE
    /\ formErrors' = {}
    /\ isSubmitting' = FALSE
    /\ pc' = "idle"
    /\ submitted' = NoSubmission
    /\ UNCHANGED <<invocations, mutationsIssued, rejected, loadingToasts,
                   errorToasts, uncaught>>
    /\ UNCHANGED azureQueryVars
    /\ UNCHANGED <<projectVars, metricsVars>>
    /\ RenderAzure

UpdateConfigRejectsAndRetries ==
    /\ pc = "awaiting"
    /\ mutationsIssued < MaxSubmits + 1
    /\ rejected' = rejected + 1
    /\ errorToasts' = errorToasts + 1
    /\ mutationsIssued' = mutationsIssued + 1
    /\ UNCHANGED <<formValues, formDefaults, isDirty, formErrors, isSubmitting,
                   pc, submitted>>
    /\ UNCHANGED <<invocations, resolved, loadingToasts, successToasts,
                   uncaught>>
    /\ UNCHANGED azureQueryVars
    /\ UNCHANGED <<projectVars, metricsVars>>
    /\ RenderAzure

\* the mutation rejects: error toast; toast.promise rethrows and the catch
\* block swallows the error
UpdateConfigRejects ==
    /\ pc = "awaiting"
    /\ rejected' = rejected + 1
    /\ errorToasts' = errorToasts + 1
    /\ isSubmitting' = FALSE
    /\ pc' = "idle"
    /\ submitted' = NoSubmission
    /\ UNCHANGED <<formValues, formDefaults, isDirty, formErrors>>
    /\ UNCHANGED <<invocations, mutationsIssued, resolved, loadingToasts,
                   successToasts, uncaught>>
    /\ UNCHANGED azureQueryVars
    /\ UNCHANGED <<projectVars, metricsVars>>
    /\ RenderAzure

NextAzure ==
    \/ SetMaintenance
    \/ SsoQueryUpdate
    \/ ChangeField
    \/ ToggleEnabled
    \/ Submit
    \/ UpdateConfigResolves
    \/ UpdateConfigRejects

----------------------------------------------------------------------------
(* Specifications *)

Next == NextProject \/ NextMetrics \/ NextAzure

Spec == Init /\ [][Next]_vars

InitProjectSpec ==
    /\ InitProject(ProjectContexts, BOOLEAN)
    /\ InitMetrics({SampleDate})
    /\ InitAzure({NoSso})

\* the project context, CustomDomains and HasuraConnectionInfo
SpecProject == InitProjectSpec /\ [][NextProject]_vars

InitMetricsSpec ==
    /\ InitProject({NoProject, SampleProject}, {TRUE})
    /\ InitMetrics(StartDates)
    /\ InitAzure({NoSso})

\* OverviewMetrics over time
SpecMetrics == InitMetricsSpec /\ [][NextMetrics]_vars

InitAzureSpec ==
    /\ InitProject({NoProject, SampleProject}, {TRUE})
    /\ InitMetrics({SampleDate})
    /\ InitAzure(SsoResults)

\* the Azure AD settings form
SpecAzure == InitAzureSpec /\ [][NextAzure]_vars

InitQueriesSpec ==
    /\ InitProject({SampleProject}, {TRUE})
    /\ InitMetrics({SampleDate})
    /\ InitAzure(SsoResults)

NextQueries == MetricsQueryUpdate \/ SsoQueryUpdate

\* the two data-fetching queries
SpecQueries == InitQueriesSpec /\ [][NextQueries]_vars

----------------------------------------------------------------------------
(* Properties *)

\* the required-field rule written out: enabled is false, or the three text
\* fields are all non-empty
Complete(values) ==
    values.enabled =>
        values.clientId # "" /\ values.clientSecret # "" /\ values.tenant # ""

\* C1 as stated: whenever the Azure AD form is rendered with its submit
\* button enabled, the form is dirty (its values differ from its defaults)
\* and its values are valid.
C1_SubmitEnabledOnlyIfDirtyAndValid ==
    (azureView.kind = "form" /\ ~azureView.submitDisabled) =>
        /\ isDirty
        /\ formValues # formDefaults
        /\ Complete(formValues)

\* C1 amended: whenever the Azure AD form is rendered with its submit button
\* enabled, the form is dirty, and dirty means that the current values differ
\* from the defaults; validity is not a condition of the button.
C1_SubmitEnabledOnlyIfDirty ==
    /\ isDirty <=> formValues # formDefaults
    /\ (azureView.kind = "form" /\ ~azureView.submitDisabled) =>
           isDirty /\ formValues # formDefaults

\* the submit button is enabled on invalid values, after an earlier reset
C1_Witness ==
    /\ azureView.kind = "form"
    /\ ~azureView.submitDisabled
    /\ ~Complete(formValues)
    /\ successToasts >= 1

\* C2: for a free project CustomDomains renders the upgrade banner and no
\* domain panel; for any other project it renders the four domain panels and
\* no upgrade banner.
C2_PlanGate ==
    currentProject.exists =>
        /\ domainsView.kind = "page"
        /\ currentProject.isFree =>
               domainsView.elements = {"UpgradeToProBanner"}
        /\ ~currentProject.isFree =>
               /\ DomainPanels \subseteq domainsView.elements
               /\ "UpgradeToProBanner" \notin domainsView.elements

\* a free project is shown after the copy button was used on another one
C2_Witness ==
    /\ currentProject.exists
    /\ currentProject.isFree
    /\ domainsView.elements = {"UpgradeToProBanner"}
    /\ clipboard.written

\* C3 as stated: in both components a settled query with an error makes the
\* render throw, whatever data the result carries.
C3_SettledErrorAlwaysThrows ==
    /\ (~metricsLoading /\ metricsError) =>
           metricsView.kind = "throw" /\ metricsView.cards = <<>>
    /\ (~ssoLoading /\ ssoError) => azureView.kind = "throw"

\* C3 amended: AzureADProviderSettings throws on every settled error;
\* OverviewMetrics throws on a settled error only when the result carries no
\* data, and renders the metric cards when it carries data.
C3_SettledErrorThrows ==
    /\ (~ssoLoading /\ ssoError) => azureView.kind = "throw"
    /\ (~metricsLoading /\ metricsError /\ ~metricsData.present) =>
           metricsView.kind = "throw" /\ metricsView.cards = <<>>
    /\ (~metricsLoading /\ metricsError /\ metricsData.present) =>
           metricsView.kind = "metrics" /\ Len(metricsView.cards) = 6

\* both queries have settled with an error and data
C3_Witness ==
    /\ ~metricsLoading /\ metricsError /\ metricsData.present
    /\ metricsView.kind = "metrics"
    /\ ~ssoLoading /\ ssoError /\ ssoData.present
    /\ azureView.kind = "throw"

\* C4: every invocation of handleProviderUpdate has issued exactly one
\* mutation; every finished invocation has shown exactly one terminal toast,
\* the success toast for a resolved mutation and the error toast for a
\* rejected one; no error has escaped the handler.
C4_OneMutationOneToast ==
    /\ mutationsIssued = invocations
    /\ loadingToasts = invocations
    /\ successToasts = resolved
    /\ errorToasts = rejected
    /\ uncaught = 0
    /\ pc = "idle" => successToasts + errorToasts = invocations
    /\ pc = "awaiting" => successToasts + errorToasts = invocations - 1

\* one invocation has failed and another has succeeded
C4_Witness ==
    /\ pc = "idle"
    /\ rejected >= 1
    /\ resolved >= 1

\* C5: while the metrics query is loading without data, OverviewMetrics
\* renders six cards that show neither a label nor a value, and does not
\* throw, whether or not an error is set.
C5_PlaceholdersWhileLoading ==
    (~metricsData.present /\ metricsLoading) =>
        /\ metricsView.kind = "placeholders"
        /\ Len(metricsView.cards) = 6
        /\ \A i \in 1..6 :
               /\ ~metricsView.cards[i].showsLabel
               /\ ~metricsView.cards[i].showsValue

\* loading without data, with an error set, a day after the module load
C5_Witness ==
    /\ ~metricsData.present
    /\ metricsLoading
    /\ metricsError
    /\ metricsView.kind = "placeholders"
    /\ elapsed >= 1

\* C6: the mutation awaited was never issued with enabled true and an empty
\* text field; and a submission with enabled false issues the mutation with
\* the form's values, whatever the text fields hold.
C6_RequiredFields ==
    /\ [](pc = "awaiting" => Complete(submitted))
    /\ [][(Submit /\ ~formValues.enabled) =>
              /\ mutationsIssued' = mutationsIssued + 1
              /\ pc' = "awaiting"
              /\ submitted' = formValues]_vars

\* a mutation is awaited for a disabled provider with an empty client id
C6_Witness ==
    /\ pc = "awaiting"
    /\ ~submitted.enabled
    /\ submitted.clientId = ""
    /\ submitted.tenant # ""

\* C7: a success toast comes with the reset of the form to the submitted
\* values (values and defaults are the submitted values, the form is not
\* dirty, submit is disabled); an error toast leaves values, defaults and
\* the dirty flag as they were; the defaults change in no other step.
C7_ResetIffSuccess ==
    [][ /\ successToasts' = successToasts + 1 =>
               /\ formValues' = submitted
               /\ formDefaults' = submitted
               /\ ~isDirty'
               /\ azureView'.submitDisabled
        /\ errorToasts' = errorToasts + 1 =>
               UNCHANGED <<formValues, formDefaults, isDirty>>
        /\ formDefaults' # formDefaults =>
               successToasts' = successToasts + 1 ]_vars

\* after a success and a failure the form is dirty again
C7_Witness ==
    /\ pc = "idle"
    /\ successToasts >= 1
    /\ errorToasts >= 1
    /\ isDirty

\* C8: the 'from' variable of the latest render is the first day of the
\* month of the day on which that render happened.
C8_FromIsFirstOfCurrentMonth ==
    metricsView.query.from =
        [year |-> renderedAt.year, month |-> renderedAt.month, date |-> 1]

\* C9: while maintenance mode is on, the rendered submit button is disabled
\* whether or not the form is dirty; it is enabled only with maintenance
\* mode off and a dirty form.
C9_MaintenanceDisablesSubmit ==
    azureView.kind = "form" =>
        /\ maintenanceActive => azureView.submitDisabled
        /\ ~azureView.submitDisabled => (~maintenanceActive /\ isDirty)

\* a dirty form under maintenance mode
C9_Witness ==
    /\ azureView.kind = "form"
    /\ maintenanceActive
    /\ isDirty
    /\ azureView.submitDisabled

\* C10: without a subdomain or an admin secret only the loading screen is
\* rendered; otherwise the text shown for the secret is the mask of the
\* secret's length, the same for every secret of that length; the clipboard
\* changes only by a click on the rendered copy button, which writes the
\* secret.
C10_SecretMasked ==
    /\ [](IF \/ ~currentProject.exists
             \/ Falsy(currentProject.subdomain)
             \/ Falsy(currentProject.adminSecret)
          THEN /\ hasuraView.elements = {"LoadingScreen"}
               /\ hasuraView.secretText = ""
          ELSE /\ {"AdminSecretText", "CopyButton", "OpenHasuraLink"}
                      \subseteq hasuraView.elements
               /\ Len(hasuraView.secretText) = Len(currentProject.adminSecret)
               /\ hasuraView.secretText = Mask(Len(currentProject.adminSecret))
               /\ \A other \in StringsUpTo(MaxSecretLen) :
                      Len(other) = Len(currentProject.adminSecret) =>
                          HasuraConnectionInfo(
                              [currentProject EXCEPT !.adminSecret = other],
                              isPlatform, envDev, closeProp) = hasuraView)
    /\ [][clipboard' # clipboard =>
              /\ "CopyButton" \in hasuraView.elements
              /\ clipboard'.text = currentProject.adminSecret
              /\ UNCHANGED hasuraView]_vars

\* a two-character secret is shown masked and has been copied
C10_Witness ==
    /\ currentProject.exists
    /\ "AdminSecretText" \in hasuraView.elements
    /\ Len(hasuraView.secretText) = 2
    /\ hasuraView.secretText # currentProject.adminSecret
    /\ clipboard.written
    /\ clipboard.text = currentProject.adminSecret

====
